---- MODULE Spec2Model ----
(***************************************************************************)
(* Live state synchronisation layer of the NexusPM dashboard:              *)
(*   - the push channel (hooks/useWebSocket), its pulse buffer and the     *)
(*     notification list that App derives from it;                         *)
(*   - the run poller and run selection of AgentTimeline;                  *)
(*   - the diff poller and the approve / reject handlers of DiffViewer;    *)
(*   - the message poller of SlackMessages across project changes;         *)
(*   - the create / delete operations of useConnections and useProjects.   *)
(* Every handler of the source is one action.  React state setters take    *)
(* effect only while the component is mounted; refs, sockets and timers    *)
(* live on after unmount.                                                  *)
(***************************************************************************)
EXTENDS Integers, Sequences, FiniteSets, TLC

(***************************************************************************)
(* Bounds of the model.                                                    *)
(***************************************************************************)
MaxSwitches == 1       \* workspace (projectId) changes of the push channel
MaxAttempts == 7       \* value at which reconnectAttempts stops growing
MaxPulses == 102       \* agent_pulse frames received in the buffer specification
MaxNotifPulses == 21   \* agent_pulse frames received in the notification specification
MaxCoalesced == 1      \* frames that arrive before the previous render committed
MaxTriggers == 1       \* handleTriggerRun invocations
MaxFetches == 4        \* getRuns requests AgentTimeline starts
MaxDvFetches == 3      \* getRuns requests DiffViewer starts
MaxWrites == 1         \* approve / reject requests DiffViewer sends
MaxSends == 2          \* sendMessage / triggerRun invocations
MaxFrames == 3         \* frames delivered to ws.onmessage in the frame specification
MaxOps == 2            \* create / delete operations invoked on connections and projects
MaxSlFetches == 4      \* getSlackMessages requests SlackMessages starts
MaxRuns == 3           \* runs in a list getRuns returns to fetchDiffs
MaxWsPulses == 1       \* agent_pulse frames received while the workspace changes
MaxFeedPulses == 3     \* agent_pulse frames received by the feed with clear() calls
MaxSlSwitches == 2     \* projectId changes of SlackMessages

(***************************************************************************)
(* Program constants.                                                      *)
(***************************************************************************)
PulseCap == 100
NotifKeep == 19
BaseDelay == 1000
MaxDelay == 30000

MaxSockets == MaxSwitches + 2
Projects == {"1", "2"}
None == "none"           \* no project / no value
NoHandle == 0             \* a ref holding null
Stale == MaxSockets + 1   \* a timer handle that names no pending timer any more

VARIABLES
  phase,                \* "init" | "mounted" | "disposed" : life of the App / useWebSocket hook
  projectId,            \* argument of useWebSocket (activeProject?.id || '1')
  connected,            \* useState connected
  pulses,               \* useState pulses, newest first
  wsRef,                \* wsRef.current : socket id or NoHandle
  reconnectTimeoutRef,  \* reconnectTimeoutRef.current : NoHandle, a pending timer id, or Stale
  reconnectAttempts,    \* reconnectAttempts.current
  sockets,              \* socket id -> [proj, state]; state "free" = no such socket
  timers,               \* timer id -> [proj, delay, state]; state "free" | "armed"
  switches,             \* number of projectId changes so far
  arrived,              \* number of agent_pulse frames received so far
  allPulses,            \* ContextBridgeFeed useState allPulses: the list the feed shows
  pulseWs,              \* for each pulse of the buffer, the workspace of the socket that received it
  delayLog,             \* delays passed to setTimeout since the last onopen
  notifications,        \* useState notifications of App, newest first
  effectPending,        \* pulses changed and the [pulses] effect has not run yet
  coalesced,            \* number of frames that arrived while effectPending
  triggers,             \* handleTriggerRun invocations so far
  triggerInFlight,      \* triggerRunRest requests awaiting their response
  tlPhase,              \* "init" | "mounted" | "disposed" : life of AgentTimeline
  runs,                 \* AgentTimeline useState runs
  selectedRunId,        \* AgentTimeline useState selectedRunId
  tlLoading,            \* AgentTimeline useState loading
  tlFetches,            \* getRuns requests of AgentTimeline in flight: [n, sel]
  tlStarted,            \* number of getRuns requests AgentTimeline has started
  tlManual,             \* the selection in force was made by a click on a run
  tlLast,               \* the getRuns request whose outcome set runs last: [n, ok]; n = 0 for none
  dvPhase,              \* "init" | "mounted" | "disposed" : life of DiffViewer
  diffs,                \* DiffViewer useState diffs
  selectedDiff,         \* DiffViewer useState selectedDiff
  dvLoading,            \* DiffViewer useState loading
  actionLoading,        \* DiffViewer useState actionLoading ("" for null)
  currentRunId,         \* DiffViewer useState currentRunId
  runStatus,            \* DiffViewer useState runStatus
  dvFetches,            \* getRuns requests of DiffViewer in flight: [n, sel]
  dvStarted,            \* number of getRuns requests DiffViewer has started
  dvWrite,              \* the approve / reject request in flight, or NoWrite
  dvWrites,             \* number of approve / reject requests sent
  settle,               \* pending setTimeout(() => fetchDiffs(), 500): [w, sel]
  patched,              \* diffs patched locally by a handler and not yet matched by a snapshot: [id, status]
  mutationErrors,       \* toast.error calls made for failed mutation requests
  sent,                 \* frames handed to WebSocket.send, in order: [sock, type]
  sendCalls,            \* sendMessage invocations so far
  healthUpdate,         \* useState healthUpdate
  frameLog,             \* frames delivered to ws.onmessage so far
  slPhase,              \* "init" | "mounted" | "disposed" : life of SlackMessages
  slProjectId,          \* prop projectId of SlackMessages
  messages,             \* SlackMessages useState messages: the feed and the request it came from
  slLoading,            \* SlackMessages useState loading
  slError,              \* SlackMessages useState error ("" for null)
  slFetches,            \* getSlackMessages requests in flight: [n, proj]
  slStarted,            \* number of getSlackMessages requests started
  slSwitches,           \* number of projectId changes of SlackMessages so far
  entPhase,             \* "init" | "mounted" | "disposed" : life of the view using useConnections / useProjects
  connections,          \* useConnections useState connections
  projects,             \* useProjects useState projects
  activeProject,        \* useProjects useState activeProject (its id, NoId for null)
  entFetches,           \* getConnections / getProjects requests in flight
  entOps,               \* create / delete requests in flight: [n, kind, id, active, state, reply]
  entStarted,           \* number of create / delete operations invoked
  entReturned,          \* values the create operations returned to their callers: [n, entity]
  entRemoved,           \* useConnections.remove calls that ran to their end: [n, id, ok]
  serverRuns            \* the run list the backend holds while fetchDiffs is observed alone

chanVars == <<phase, projectId, connected, wsRef, reconnectTimeoutRef,
              reconnectAttempts, sockets, timers, switches, delayLog>>
bufVars == <<pulses, arrived, effectPending, coalesced, pulseWs, allPulses>>
notifVars == <<notifications, triggers, triggerInFlight>>
wireVars == <<sent, sendCalls, healthUpdate, frameLog>>
pushVars == <<chanVars, bufVars, notifVars, wireVars>>
tlVars == <<tlPhase, runs, selectedRunId, tlLoading, tlFetches, tlStarted, tlManual,
            tlLast>>
dvVars == <<dvPhase, diffs, selectedDiff, dvLoading, actionLoading, currentRunId,
            runStatus, dvFetches, dvStarted, dvWrite, dvWrites, settle, patched,
            mutationErrors>>
slVars == <<slPhase, slProjectId, messages, slLoading, slError, slFetches, slStarted,
            slSwitches>>
entVars == <<entPhase, connections, projects, activeProject, entFetches, entOps,
             entStarted, entReturned, entRemoved>>
otherVars == <<slVars, entVars, serverRuns>>
viewVars == <<tlVars, dvVars, otherVars>>
vars == <<pushVars, viewVars, wireVars>>

(***************************************************************************)
(* Helpers.                                                                *)
(***************************************************************************)
Min(a, b) == IF a < b THEN a ELSE b

\* Array.prototype.slice(0, n)
Slice0(s, n) == SubSeq(s, 1, Min(n, Len(s)))

FreeSock == [proj |-> None, state |-> "free"]
FreeTimer == [proj |-> None, delay |-> 0, state |-> "free"]

SockIds == 1..MaxSockets
LiveSocks == {i \in SockIds : sockets[i].state \in {"connecting", "open", "closing"}}
ArmedTimers == {i \in SockIds : timers[i].state = "armed"}

\* the handle a new socket / timer gets: any handle not in use
NewSockId(socks, ref) == CHOOSE i \in SockIds : socks[i].state = "free" /\ i # ref
NewTimerId(tms) == CHOOSE i \in SockIds : tms[i].state = "free"

(***************************************************************************)
(* Frames the server pushes.  The n-th agent_pulse carries the n-th entry  *)
(* of the cycle below, so every status occurs; the timestamps are the      *)
(* server's and do not follow the order of arrival.                        *)
(***************************************************************************)
PulseInputs ==
  << [status |-> "completed", agent |-> "Scribe", action |-> "drafted ticket",
      target |-> "PROJ-12", timestamp |-> 30],
     [status |-> "running",   agent |-> "Scout",  action |-> "ingesting",
      target |-> "slack", timestamp |-> 10],
     [status |-> "error",     agent |-> "Judge",  action |-> "review failed",
      target |-> "PROJ-7", timestamp |-> 20] >>

\* the n-th agent_pulse frame to arrive; id is its arrival number
PulseOf(n) ==
  LET t == PulseInputs[((n - 1) % Len(PulseInputs)) + 1]
  IN  [id |-> n, status |-> t.status, agent |-> t.agent, action |-> t.action,
       target |-> t.target, timestamp |-> t.timestamp]

\* mutation of NotifOf: the title leaves the agent out
NotifOf_NoAgent(latest) ==
  [title |-> latest.action,
   message |-> latest.target,
   read |-> FALSE,
   type |-> IF latest.status = "error" THEN "error" ELSE "info"]

\* App effect on [pulses]: the notification built from the newest pulse
NotifOf(latest) ==
  [title |-> latest.agent \o ": " \o latest.action,
   message |-> latest.target,
   read |-> FALSE,
   type |-> IF latest.status = "error" THEN "error" ELSE "info"]

\* App.handleTriggerRun: the notification of a started run
RunTriggeredNotif(p) ==
  [title |-> "Run Triggered",
   message |-> "Agent pipeline started for " \o p,
   read |-> FALSE,
   type |-> "info"]

\* mutation of ReconnectDelay: the cap is forgotten
ReconnectDelay_NoCap(attempt) == BaseDelay * 2^attempt

\* delay = Math.min(1000 * 2 ** reconnectAttempts.current, 30000)
ReconnectDelay(attempt) == Min(BaseDelay * 2^attempt, MaxDelay)

\* mutation of PushPulse: a full buffer refuses the new pulse
PushPulse_DropNewest(pulse, prev) ==
  IF Len(prev) >= PulseCap THEN prev ELSE <<pulse>> \o prev

\* mutation of PushPulse: the buffer is kept in timestamp order, latest first
PushPulse_ByTimestamp(pulse, prev) ==
  Slice0(SelectSeq(prev, LAMBDA q : q.timestamp > pulse.timestamp) \o <<pulse>>
           \o SelectSeq(prev, LAMBDA q : q.timestamp <= pulse.timestamp), PulseCap)

\* setPulses((prev) => [pulse, ...prev].slice(0, 100))
PushPulse(pulse, prev) == Slice0(<<pulse>> \o prev, PulseCap)

(***************************************************************************)
(* Runs and diffs as DiffViewer sees them.                                 *)
(***************************************************************************)
NoExec == "none"          \* execution_result absent
ExecCreate == "create PROJ-12"

Diff(id, status, exec) == [id |-> id, status |-> status, exec |-> exec]
Run(id, status, stage, ds) == [id |-> id, status |-> status, currentStage |-> stage, diffs |-> ds]

\* the run lists api.getRuns may return to DiffViewer, most recent run first
DvSnapshots ==
  LET pending  == <<Diff("D1", "pending", NoExec), Diff("D2", "pending", NoExec)>>
      approved == <<Diff("D1", "approved", ExecCreate), Diff("D2", "pending", NoExec)>>
      rejected == <<Diff("D1", "rejected", NoExec), Diff("D2", "pending", NoExec)>>
      done     == <<Diff("D1", "approved", ExecCreate), Diff("D2", "approved", ExecCreate)>>
      newer    == <<Diff("D3", "pending", NoExec)>>
  IN  { <<>>,
        <<Run("R1", "running", "human_review", pending)>>,
        <<Run("R1", "running", "human_review", approved)>>,
        <<Run("R1", "running", "human_review", rejected)>>,
        <<Run("R2", "running", "draft", <<>>), Run("R1", "running", "human_review", pending)>>,
        <<Run("R2", "running", "draft", newer), Run("R1", "running", "human_review", pending)>>,
        <<Run("R2", "running", "draft", newer), Run("R1", "completed", "execute", done)>> }

\* every run list of up to MaxRuns runs, each in human_review or in an
\* earlier stage and each with one diff or with none, most recent run first
RunAt(i, stage, withDiff) ==
  Run(<<"R1", "R2", "R3", "R4">>[i], "running", stage,
      IF withDiff THEN <<Diff(<<"D1", "D2", "D3", "D4">>[i], "pending", NoExec)>> ELSE <<>>)
ReviewSnapshots ==
  UNION {{[i \in 1..len |-> RunAt(i, c[i][1], c[i][2])] :
             c \in [1..len -> {"human_review", "draft"} \X BOOLEAN]} : len \in 0..MaxRuns}

\* useState<unknown[]>([]) of healthUpdate: no health_update frame applied yet
NoHealth == 0

\* useState<SlackMessage[]>([]) of messages: the feed of no request
NoFeed == [proj |-> None, n |-> 0]

\* connections and projects: their ids and what the model keeps of them
NoId == <<>>                       \* no entity: null
ServerId(n) == <<"srv", n>>        \* an id the backend assigned
LocalId(n) == <<"local", n>>       \* Date.now().toString() of the n-th operation

Entity(id, status) == [id |-> id, status |-> status]
NoEntity == Entity(NoId, "")

\* a request that was never sent
NoWrite == [kind |-> "none", action |-> "", diffId |-> "", runId |-> "", sel |-> "",
            w |-> 0, state |-> "none", exec |-> NoExec]

(***************************************************************************)
(* Initial state: the hooks' useState / useRef initial values.             *)
(***************************************************************************)
InitBase ==
  /\ phase = "init"
  /\ projectId = "1"
  /\ connected = FALSE
  /\ pulses = <<>>
  /\ wsRef = NoHandle
  /\ reconnectTimeoutRef = NoHandle
  /\ reconnectAttempts = 0
  /\ sockets = [i \in SockIds |-> FreeSock]
  /\ timers = [i \in SockIds |-> FreeTimer]
  /\ switches = 0
  /\ arrived = 0
  /\ pulseWs = <<>>
  /\ allPulses = <<>>
  /\ delayLog = <<>>
  /\ notifications = <<>>
  /\ effectPending = FALSE
  /\ coalesced = 0
  /\ triggers = 0
  /\ triggerInFlight = [p \in Projects |-> 0]
  /\ tlPhase = "init"
  /\ runs = <<>>
  /\ selectedRunId = ""
  /\ tlLoading = TRUE
  /\ tlFetches = {}
  /\ tlStarted = 0
  /\ tlManual = FALSE
  /\ tlLast = [n |-> 0, ok |-> FALSE]
  /\ dvPhase = "init"
  /\ diffs = <<>>
  /\ selectedDiff = ""
  /\ dvLoading = TRUE
  /\ actionLoading = ""
  /\ currentRunId = ""
  /\ runStatus = ""
  /\ dvFetches = {}
  /\ dvStarted = 0
  /\ dvWrite = NoWrite
  /\ dvWrites = 0
  /\ settle = {}
  /\ patched = {}
  /\ mutationErrors = 0
  /\ sent = <<>>
  /\ sendCalls = 0
  /\ healthUpdate = NoHealth
  /\ frameLog = <<>>
  /\ slPhase = "init"
  /\ slProjectId = "1"
  /\ messages = NoFeed
  /\ slLoading = TRUE
  /\ slError = ""
  /\ slFetches = {}
  /\ slStarted = 0
  /\ slSwitches = 0
  /\ entPhase = "init"
  /\ connections = <<>>
  /\ projects = <<>>
  /\ activeProject = NoId
  /\ entFetches = {}
  /\ entOps = {}
  /\ entStarted = 0
  /\ entReturned = {}
  /\ entRemoved = {}

Init == InitBase /\ serverRuns = <<>>

\* the view under any run list of the backend
InitReview == InitBase /\ serverRuns \in ReviewSnapshots

(***************************************************************************)
(* useWebSocket                                                            *)
(***************************************************************************)
\* mutation of ScheduleReconnect: the attempt is counted but no timer is armed
ScheduleReconnect_Never(proj, tms, att, log) ==
  /\ timers' = tms
  /\ reconnectTimeoutRef' = Stale
  /\ reconnectAttempts' = att + 1
  /\ delayLog' = Append(log, ReconnectDelay(att))

\* setTimeout(connect, delay) of onclose and of the catch branch, with the
\* bookkeeping around it; proj is the projectId the connect closure captured
ScheduleReconnect(proj, tms, att, log) ==
  LET t == NewTimerId(tms)
      d == ReconnectDelay(att)
  IN  /\ timers' = [tms EXCEPT ![t] = [proj |-> proj, delay |-> d, state |-> "armed"]]
      /\ reconnectTimeoutRef' = t
      /\ reconnectAttempts' = att + 1
      /\ delayLog' = Append(log, d)

\* connect() of the closure that captured proj, run on the given values of
\* the refs; throws: the WebSocket constructor throws
Connect(proj, throws, ws, socks, tms, tref, att, log) ==
  IF ws # NoHandle /\ socks[ws].state = "open"
  THEN /\ wsRef' = ws
       /\ sockets' = socks
       /\ timers' = tms
       /\ reconnectTimeoutRef' = tref
       /\ reconnectAttempts' = att
       /\ delayLog' = log
  ELSE IF throws
  THEN /\ att < MaxAttempts
       /\ wsRef' = ws
       /\ sockets' = socks
       /\ ScheduleReconnect(proj, tms, att, log)
  ELSE LET s == NewSockId(socks, ws)
           released == IF ws # NoHandle /\ socks[ws].state = "closed"
                       THEN [socks EXCEPT ![ws] = FreeSock] ELSE socks
       IN  /\ sockets' = [released EXCEPT ![s] = [proj |-> proj, state |-> "connecting"]]
           /\ wsRef' = s
           /\ timers' = tms
           /\ reconnectTimeoutRef' = tref
           /\ reconnectAttempts' = att
           /\ delayLog' = log

\* the effect cleanup: clearTimeout, then close and forget the socket
CleanupTimers(tms, tref) ==
  IF tref \in SockIds /\ tms[tref].state = "armed"
  THEN [tms EXCEPT ![tref] = FreeTimer] ELSE tms

CleanupRef(tref) == IF tref = NoHandle THEN NoHandle ELSE Stale

CleanupSockets(ws, socks) ==
  IF ws = NoHandle THEN socks
  ELSE IF socks[ws].state \in {"connecting", "open"}
       THEN [socks EXCEPT ![ws].state = "closing"]
       ELSE [socks EXCEPT ![ws] = FreeSock]

\* first run of the effect: connect()
Mount ==
  /\ phase = "init"
  /\ phase' = "mounted"
  /\ \E throws \in BOOLEAN :
       Connect(projectId, throws, wsRef, sockets, timers, reconnectTimeoutRef,
               reconnectAttempts, delayLog)
  /\ UNCHANGED <<projectId, connected, switches, bufVars, notifVars, viewVars, wireVars>>

\* projectId changes: cleanup of the old effect, then connect() of the new closure
SwitchProject(p) ==
  /\ phase = "mounted"
  /\ p # projectId
  /\ switches < MaxSwitches
  /\ projectId' = p
  /\ switches' = switches + 1
  /\ \E throws \in BOOLEAN :
       Connect(p, throws, NoHandle, CleanupSockets(wsRef, sockets),
               CleanupTimers(timers, reconnectTimeoutRef),
               CleanupRef(reconnectTimeoutRef), reconnectAttempts, delayLog)
  /\ UNCHANGED <<phase, connected, bufVars, notifVars, viewVars, wireVars>>

\* unmount: the effect cleanup alone
Dispose ==
  /\ phase = "mounted"
  /\ phase' = "disposed"
  /\ wsRef' = NoHandle
  /\ sockets' = CleanupSockets(wsRef, sockets)
  /\ timers' = CleanupTimers(timers, reconnectTimeoutRef)
  /\ reconnectTimeoutRef' = CleanupRef(reconnectTimeoutRef)
  /\ UNCHANGED <<projectId, connected, reconnectAttempts, switches, delayLog,
                 bufVars, notifVars, viewVars, wireVars>>

\* ws.onopen
SocketOpen(s) ==
  /\ sockets[s].state = "connecting"
  /\ sockets' = [sockets EXCEPT ![s].state = "open"]
  /\ connected' = IF phase = "mounted" THEN TRUE ELSE connected
  /\ reconnectAttempts' = 0
  /\ delayLog' = <<>>
  /\ UNCHANGED <<phase, projectId, wsRef, reconnectTimeoutRef, timers, switches,
                 bufVars, notifVars, viewVars, wireVars>>

\* the socket reaches CLOSED (failed connect, lost connection, or close()
\* completed): ws.onerror is a no-op by then, ws.onclose runs
SocketClose(s) ==
  /\ s \in LiveSocks
  /\ reconnectAttempts < MaxAttempts
  /\ sockets' = IF wsRef = s THEN [sockets EXCEPT ![s].state = "closed"]
                ELSE [sockets EXCEPT ![s] = FreeSock]
  /\ connected' = IF phase = "mounted" THEN FALSE ELSE connected
  /\ ScheduleReconnect(sockets[s].proj, timers, reconnectAttempts, delayLog)
  /\ UNCHANGED <<phase, projectId, wsRef, switches, bufVars, notifVars, viewVars, wireVars>>

\* a reconnect timer fires: connect() of the closure that armed it
TimerFire(t) ==
  /\ t \in ArmedTimers
  /\ \E throws \in BOOLEAN :
       Connect(timers[t].proj, throws, wsRef, sockets,
               [timers EXCEPT ![t] = FreeTimer],
               IF reconnectTimeoutRef = t THEN Stale ELSE reconnectTimeoutRef,
               reconnectAttempts, delayLog)
  /\ UNCHANGED <<phase, projectId, connected, switches, bufVars, notifVars, viewVars, wireVars>>

\* ws.onmessage with an agent_pulse frame; batching: the frame may arrive
\* before the render of the previous frame has committed
OnMessagePulse(limit, batching) ==
  /\ phase = "mounted"
  /\ \E s \in SockIds : /\ sockets[s].state = "open"
                         /\ pulseWs' = Slice0(<<sockets[s].proj>> \o pulseWs, PulseCap)
  /\ arrived < limit
  /\ effectPending => (batching /\ coalesced < MaxCoalesced)
  /\ pulses' = PushPulse(PulseOf(arrived + 1), pulses)
  /\ arrived' = arrived + 1
  /\ effectPending' = TRUE
  /\ coalesced' = IF effectPending THEN coalesced + 1 ELSE coalesced
  /\ UNCHANGED <<allPulses, chanVars, notifVars, viewVars, wireVars>>

\* clearPulses (returned by the hook; App does not call it)
ClearPulses ==
  /\ phase = "mounted"
  /\ pulses # <<>>
  /\ pulses' = <<>>
  /\ pulseWs' = <<>>
  /\ effectPending' = TRUE
  /\ UNCHANGED <<arrived, coalesced, allPulses, chanVars, notifVars, viewVars, wireVars>>

\* mutation of CanSend: a socket that is still connecting is written to
CanSend_NotClosed(ws, socks) == ws # NoHandle /\ socks[ws].state \in {"connecting", "open"}

\* wsRef.current?.readyState === WebSocket.OPEN
CanSend(ws, socks) == ws # NoHandle /\ socks[ws].state = "open"

\* sendMessage(msg) with a message of the given type
SendMessage(type) ==
  /\ phase = "mounted"
  /\ sendCalls < MaxSends
  /\ sendCalls' = sendCalls + 1
  /\ sent' = IF CanSend(wsRef, sockets)
             THEN Append(sent, [sock |-> wsRef, type |-> type])
             ELSE sent
  /\ UNCHANGED <<healthUpdate, frameLog, chanVars, bufVars, notifVars, viewVars>>

\* triggerRun(description, sources)
TriggerRun == SendMessage("trigger_run")

\* the frames a server may push: text that is no JSON, JSON that is no
\* object, and objects of a known or an unknown type
Frames ==
  { [json |-> "garbage", type |-> "", data |-> 0],
    [json |-> "null", type |-> "", data |-> 0],
    [json |-> "object", type |-> "ping", data |-> 0],
    [json |-> "object", type |-> "connected", data |-> 0],
    [json |-> "object", type |-> "health_update", data |-> 1],
    [json |-> "object", type |-> "health_update", data |-> 2],
    [json |-> "object", type |-> "agent_pulse", data |-> 0] }

\* mutation of Branch: every object that is no health_update or connected
\* frame is taken for a pulse
Branch_UnknownIsPulse(frame) ==
  IF frame.json # "object" THEN "catch"
  ELSE IF frame.type = "health_update" THEN "health"
  ELSE IF frame.type = "connected" THEN "log"
  ELSE "pulse"

\* the branch of ws.onmessage a frame takes: JSON.parse or msg.type throws
\* ("catch"), or one of the three tests on msg.type succeeds, or none does
Branch(frame) ==
  IF frame.json # "object" THEN "catch"
  ELSE IF frame.type = "agent_pulse" THEN "pulse"
  ELSE IF frame.type = "health_update" THEN "health"
  ELSE IF frame.type = "connected" THEN "log"
  ELSE "none"

\* ws.onmessage with any frame; the render of the previous frame has committed
OnMessage(frame) ==
  /\ phase = "mounted"
  /\ \E s \in SockIds :
       /\ sockets[s].state = "open"
       /\ pulseWs' = IF Branch(frame) = "pulse"
                     THEN Slice0(<<sockets[s].proj>> \o pulseWs, PulseCap) ELSE pulseWs
  /\ Len(frameLog) < MaxFrames
  /\ ~effectPending
  /\ frameLog' = Append(frameLog, frame)
  /\ LET b == Branch(frame)
     IN  /\ pulses' = IF b = "pulse" THEN PushPulse(PulseOf(arrived + 1), pulses) ELSE pulses
         /\ arrived' = IF b = "pulse" THEN arrived + 1 ELSE arrived
         /\ effectPending' = (b = "pulse")
         /\ healthUpdate' = IF b = "health" THEN frame.data ELSE healthUpdate
  /\ UNCHANGED <<coalesced, allPulses, sent, sendCalls, chanVars, notifVars, viewVars>>

(***************************************************************************)
(* App                                                                     *)
(***************************************************************************)
\* ContextBridgeFeed effect on [externalPulses]:
\* if (externalPulses && externalPulses.length > 0) setAllPulses(externalPulses)
FeedMerge(external, shown) == IF Len(external) > 0 THEN external ELSE shown

\* the render after pulses changed commits and the [pulses] effects run:
\* that of App and that of the feed of the dashboard
PulseEffect ==
  /\ phase = "mounted"
  /\ effectPending
  /\ effectPending' = FALSE
  /\ allPulses' = FeedMerge(pulses, allPulses)
  /\ notifications' = IF Len(pulses) > 0
                      THEN <<NotifOf(pulses[1])>> \o Slice0(notifications, NotifKeep)
                      ELSE notifications
  /\ UNCHANGED <<pulses, arrived, coalesced, pulseWs, triggers, triggerInFlight, chanVars,
                 viewVars, wireVars>>

\* handleTriggerRun up to its await
TriggerStart ==
  /\ phase = "mounted"
  /\ triggers < MaxTriggers
  /\ triggers' = triggers + 1
  /\ triggerInFlight' = [triggerInFlight EXCEPT ![projectId] = @ + 1]
  /\ UNCHANGED <<notifications, chanVars, bufVars, viewVars, wireVars>>

\* triggerRunRest resolved: the rest of the try block
TriggerOk(p) ==
  /\ triggerInFlight[p] > 0
  /\ triggerInFlight' = [triggerInFlight EXCEPT ![p] = @ - 1]
  /\ notifications' = IF phase = "mounted"
                      THEN <<RunTriggeredNotif(p)>> \o notifications
                      ELSE notifications
  /\ UNCHANGED <<triggers, chanVars, bufVars, viewVars, wireVars>>

\* triggerRunRest rejected: the catch block (a toast only)
TriggerFail(p) ==
  /\ triggerInFlight[p] > 0
  /\ triggerInFlight' = [triggerInFlight EXCEPT ![p] = @ - 1]
  /\ UNCHANGED <<notifications, triggers, chanVars, bufVars, viewVars, wireVars>>

\* markAllRead
MarkAllRead ==
  /\ phase = "mounted"
  /\ notifications' = [i \in DOMAIN notifications |-> [notifications[i] EXCEPT !.read = TRUE]]
  /\ UNCHANGED <<triggers, triggerInFlight, chanVars, bufVars, viewVars, wireVars>>

(***************************************************************************)
(* AgentTimeline                                                           *)
(***************************************************************************)
RunIds == {"A", "B"}
RunStatuses == {"running", "completed"}
RunRecs == [id : RunIds, status : RunStatuses]

\* the run lists api.getRuns may return, most recent run first
RunSnapshots ==
  {<<>>} \cup {<<r>> : r \in RunRecs}
         \cup {<<p[1], p[2]>> : p \in {x \in RunRecs \X RunRecs : x[1].id # x[2].id}}

IdsOf(list) == {list[i].id : i \in 1..Len(list)}

\* undefined as the value of currentRun: no run to show
NoRun == [id |-> "", status |-> ""]

\* mutation of CurrentRun: a selected run that is gone is still shown
CurrentRun_KeepsStale(list, sel) ==
  IF sel \in IdsOf(list)
  THEN list[CHOOSE i \in 1..Len(list) : list[i].id = sel /\ \A j \in 1..(i - 1) : list[j].id # sel]
  ELSE IF sel # "" THEN [id |-> sel, status |-> "completed"]
  ELSE IF Len(list) > 0 THEN list[1] ELSE NoRun

\* mutation of CurrentRun: no fallback to the first run
CurrentRun_NoFallback(list, sel) ==
  IF sel \in IdsOf(list)
  THEN list[CHOOSE i \in 1..Len(list) : list[i].id = sel /\ \A j \in 1..(i - 1) : list[j].id # sel]
  ELSE NoRun

\* const currentRun = runs.find(r => r.id === selectedRunId) || runs[0]
CurrentRun(list, sel) ==
  IF sel \in IdsOf(list)
  THEN list[CHOOSE i \in 1..Len(list) : list[i].id = sel /\ \A j \in 1..(i - 1) : list[j].id # sel]
  ELSE IF Len(list) > 0 THEN list[1] ELSE NoRun

\* the value `prev` of the updater passed to the second setRuns: React runs
\* the queued updates in order, so the updater sees the result of the
\* setRuns(data) queued just before it
UpdaterPrev(before, data) == data

\* mutation of SelectAfter: the branch for an empty selection is missing
SelectAfter_NoInitial(before, data, closureSel, cur) ==
  IF Len(data) > 0
  THEN LET prev == UpdaterPrev(before, data)
       IN  IF Len(prev) > 0 /\ data[1].id # prev[1].id /\ data[1].status = "running"
           THEN data[1].id
           ELSE cur
  ELSE cur

\* fetchRuns after a successful getRuns: the selectedRunId that results;
\* closureSel is the selectedRunId the fetchRuns closure captured
SelectAfter(before, data, closureSel, cur) ==
  IF Len(data) > 0
  THEN LET prev == UpdaterPrev(before, data)
       IN  IF Len(prev) > 0 /\ data[1].id # prev[1].id /\ data[1].status = "running"
           THEN data[1].id
           ELSE IF closureSel = "" THEN data[1].id ELSE cur
  ELSE cur

\* fetchRuns() up to its await: one more getRuns request in flight
TlStartFetch(closureSel, fetches) ==
  /\ tlStarted < MaxFetches
  /\ tlStarted' = tlStarted + 1
  /\ tlFetches' = fetches \cup {[n |-> tlStarted + 1, sel |-> closureSel]}

\* the polling effect runs for the first time
TlMount ==
  /\ tlPhase = "init"
  /\ tlPhase' = "mounted"
  /\ TlStartFetch(selectedRunId, tlFetches)
  /\ UNCHANGED <<runs, selectedRunId, tlLoading, tlManual, tlLast, pushVars, dvVars, otherVars>>

\* setInterval(fetchRuns, 2000) elapses; the interval belongs to the effect of
\* the latest render, whose fetchRuns captured the current selectedRunId
TlTick ==
  /\ tlPhase = "mounted"
  /\ TlStartFetch(selectedRunId, tlFetches)
  /\ UNCHANGED <<tlPhase, runs, selectedRunId, tlLoading, tlManual, tlLast, pushVars, dvVars,
                 otherVars>>

\* getRuns of request f resolves with data: the rest of fetchRuns; a changed
\* selectedRunId gives a new fetchRuns, so the polling effect runs again
TlRespondOk(f, data) ==
  /\ f \in tlFetches
  /\ IF tlPhase = "mounted"
     THEN LET sel == SelectAfter(runs, data, f.sel, selectedRunId)
          IN  /\ runs' = data
              /\ tlLast' = [n |-> f.n, ok |-> TRUE]
              /\ tlLoading' = FALSE
              /\ selectedRunId' = sel
              /\ tlManual' = (tlManual /\ sel = selectedRunId)
              /\ IF sel # selectedRunId
                 THEN TlStartFetch(sel, tlFetches \ {f})
                 ELSE tlFetches' = tlFetches \ {f} /\ UNCHANGED tlStarted
     ELSE /\ tlFetches' = tlFetches \ {f}
          /\ UNCHANGED <<runs, tlLoading, selectedRunId, tlManual, tlStarted, tlLast>>
  /\ UNCHANGED <<tlPhase, pushVars, dvVars, otherVars>>

\* mutation of TlRespondFail: the catch block retries at once
TlRespondFail_Retry(f) ==
  /\ f \in tlFetches
  /\ IF tlPhase = "mounted"
     THEN /\ runs' = <<>> /\ tlLoading' = FALSE /\ tlLast' = [n |-> f.n, ok |-> FALSE]
          /\ TlStartFetch(selectedRunId, tlFetches \ {f})
     ELSE tlFetches' = tlFetches \ {f} /\ UNCHANGED <<runs, tlLoading, tlStarted, tlLast>>
  /\ UNCHANGED <<tlPhase, selectedRunId, tlManual, pushVars, dvVars, otherVars>>

\* mutation of TlRespondFail: no finally block, loading stays as it was
TlRespondFail_KeepLoading(f) ==
  /\ f \in tlFetches
  /\ tlFetches' = tlFetches \ {f}
  /\ IF tlPhase = "mounted"
     THEN runs' = <<>> /\ tlLast' = [n |-> f.n, ok |-> FALSE]
     ELSE UNCHANGED <<runs, tlLast>>
  /\ UNCHANGED <<tlPhase, selectedRunId, tlLoading, tlStarted, tlManual, pushVars, dvVars,
                 otherVars>>

\* getRuns of request f rejects: the catch block and the finally block
TlRespondFail(f) ==
  /\ f \in tlFetches
  /\ tlFetches' = tlFetches \ {f}
  /\ IF tlPhase = "mounted"
     THEN runs' = <<>> /\ tlLoading' = FALSE /\ tlLast' = [n |-> f.n, ok |-> FALSE]
     ELSE UNCHANGED <<runs, tlLoading, tlLast>>
  /\ UNCHANGED <<tlPhase, selectedRunId, tlStarted, tlManual, pushVars, dvVars, otherVars>>

\* click on a run of the history list
TlClick(r) ==
  /\ tlPhase = "mounted"
  /\ ~tlLoading
  /\ r \in IdsOf(runs)
  /\ selectedRunId' = r
  /\ tlManual' = TRUE
  /\ IF r # selectedRunId
     THEN TlStartFetch(r, tlFetches)
     ELSE UNCHANGED <<tlFetches, tlStarted>>
  /\ UNCHANGED <<tlPhase, runs, tlLoading, tlLast, pushVars, dvVars, otherVars>>

\* unmount: clearInterval
TlDispose ==
  /\ tlPhase = "mounted"
  /\ tlPhase' = "disposed"
  /\ UNCHANGED <<runs, selectedRunId, tlLoading, tlFetches, tlStarted, tlManual, tlLast,
                 pushVars, dvVars, otherVars>>

(***************************************************************************)
(* DiffViewer                                                              *)
(***************************************************************************)
\* index of the first element of list that satisfies P, 0 if there is none
FirstIdx(list, P(_)) ==
  IF \E i \in 1..Len(list) : P(list[i])
  THEN CHOOSE i \in 1..Len(list) : P(list[i]) /\ \A j \in 1..(i - 1) : ~P(list[j])
  ELSE 0

\* mutation of ReviewIdx: the stage is not looked at
ReviewIdx_FirstWithDiffs(data) ==
  LET hasDiffs(r) == Len(r.diffs) > 0
  IN  FirstIdx(data, hasDiffs)

\* runs.find(r => r.currentStage === 'human_review' && r.diffs?.length) ||
\* runs.find(r => r.diffs?.length), as an index into data
ReviewIdx(data) ==
  LET inReview(r) == r.currentStage = "human_review" /\ Len(r.diffs) > 0
      hasDiffs(r) == Len(r.diffs) > 0
  IN  IF FirstIdx(data, inReview) # 0 THEN FirstIdx(data, inReview)
      ELSE FirstIdx(data, hasDiffs)

NewStatus(action) == IF action = "approve" THEN "approved" ELSE "rejected"

\* mutation of PatchDiff: the execution_result of the answer is not attached
PatchDiff_NoExec(list, diffId, action, exec) ==
  [i \in 1..Len(list) |->
     IF list[i].id = diffId THEN [list[i] EXCEPT !.status = NewStatus(action)] ELSE list[i]]

\* handleDiffAction: prev.map(d => d.id === diffId
\*   ? {...d, status, execution_result: result.diff?.execution_result} : d)
PatchDiff(list, diffId, action, exec) ==
  [i \in 1..Len(list) |->
     IF list[i].id = diffId
     THEN [list[i] EXCEPT !.status = NewStatus(action), !.exec = exec]
     ELSE list[i]]

\* mutation of PatchAll: only the first diff gets the new status
PatchAll_OnlyFirst(list, action) ==
  [i \in 1..Len(list) |->
     IF i = 1 THEN [list[i] EXCEPT !.status = NewStatus(action)] ELSE list[i]]

\* handleAction: prev.map(d => ({...d, status}))
PatchAll(list, action) ==
  [i \in 1..Len(list) |-> [list[i] EXCEPT !.status = NewStatus(action)]]

\* the local patches that remain after the handler of request wr patched
\* list: the diffs the handler's map gave a new status, replacing earlier
\* patches of the same diffs
PatchedBy(old, list, wr) ==
  LET hit == {list[i].id : i \in {j \in 1..Len(list) : wr.kind = "run" \/ list[j].id = wr.diffId}}
  IN  {p \in old : p.id \notin hit} \cup {[id |-> d, status |-> NewStatus(wr.action)] : d \in hit}

\* the local patches that remain after fetchDiffs applied the snapshot list:
\* those the snapshot does not report with the patched status
StillPatched(old, list) ==
  {p \in old : ~\E i \in 1..Len(list) : list[i].id = p.id /\ list[i].status = p.status}

\* the execution_result the backend puts into the answer of a diff action
ServerExec(action) == IF action = "approve" THEN {ExecCreate, NoExec} ELSE {NoExec}

\* fetchDiffs() up to its await: one more getRuns request in flight
DvStartFetch(closureSel, fetches) ==
  /\ dvStarted < MaxDvFetches
  /\ dvStarted' = dvStarted + 1
  /\ dvFetches' = fetches \cup {[n |-> dvStarted + 1, sel |-> closureSel]}

\* the polling effect runs for the first time
DvMount ==
  /\ dvPhase = "init"
  /\ dvPhase' = "mounted"
  /\ DvStartFetch(selectedDiff, dvFetches)
  /\ UNCHANGED <<diffs, selectedDiff, dvLoading, actionLoading, currentRunId, runStatus,
                 dvWrite, dvWrites, settle, patched, mutationErrors,
                 pushVars, tlVars, otherVars>>

\* setInterval(fetchDiffs, 5000) elapses
DvTick ==
  /\ dvPhase = "mounted"
  /\ DvStartFetch(selectedDiff, dvFetches)
  /\ UNCHANGED <<dvPhase, diffs, selectedDiff, dvLoading, actionLoading, currentRunId,
                 runStatus, dvWrite, dvWrites, settle, patched, mutationErrors,
                 pushVars, tlVars, otherVars>>

\* getRuns of request f resolves with data: the rest of fetchDiffs; a changed
\* selectedDiff gives a new fetchDiffs, so the polling effect runs again
DvRespondOk(f, data) ==
  /\ f \in dvFetches
  /\ IF dvPhase = "mounted"
     THEN LET k == ReviewIdx(data)
              sel == IF k # 0 /\ (f.sel = "" \/ f.sel \notin IdsOf(data[k].diffs))
                     THEN data[k].diffs[1].id ELSE selectedDiff
          IN  /\ diffs' = IF k # 0 THEN data[k].diffs ELSE <<>>
              /\ currentRunId' = IF k # 0 THEN data[k].id ELSE ""
              /\ runStatus' = IF k # 0 THEN data[k].status ELSE ""
              /\ selectedDiff' = sel
              /\ dvLoading' = FALSE
              /\ patched' = StillPatched(patched, IF k # 0 THEN data[k].diffs ELSE <<>>)
              /\ IF sel # selectedDiff
                 THEN DvStartFetch(sel, dvFetches \ {f})
                 ELSE dvFetches' = dvFetches \ {f} /\ UNCHANGED dvStarted
     ELSE /\ dvFetches' = dvFetches \ {f}
          /\ UNCHANGED <<diffs, currentRunId, runStatus, selectedDiff, dvLoading, dvStarted,
                         patched>>
  /\ UNCHANGED <<dvPhase, actionLoading, dvWrite, dvWrites, settle, mutationErrors,
                 pushVars, tlVars, otherVars>>

\* getRuns of request f rejects: the catch block
DvRespondFail(f) ==
  /\ f \in dvFetches
  /\ dvFetches' = dvFetches \ {f}
  /\ IF dvPhase = "mounted"
     THEN diffs' = <<>> /\ dvLoading' = FALSE
     ELSE UNCHANGED <<diffs, dvLoading>>
  /\ UNCHANGED <<dvPhase, selectedDiff, actionLoading, currentRunId, runStatus, dvStarted,
                 dvWrite, dvWrites, settle, patched, mutationErrors,
                 pushVars, tlVars, otherVars>>

\* click on a diff of the list
DvSelect(d) ==
  /\ dvPhase = "mounted"
  /\ ~dvLoading
  /\ d \in IdsOf(diffs)
  /\ d # selectedDiff
  /\ selectedDiff' = d
  /\ DvStartFetch(d, dvFetches)
  /\ UNCHANGED <<dvPhase, diffs, dvLoading, actionLoading, currentRunId, runStatus,
                 dvWrite, dvWrites, settle, patched, mutationErrors,
                 pushVars, tlVars, otherVars>>

\* Approve / Reject of the selected proposal: handleDiffAction up to its await
DvDiffAction(action) ==
  /\ dvPhase = "mounted"
  /\ ~dvLoading
  /\ selectedDiff # ""
  /\ LET isSel(d) == d.id = selectedDiff
     IN  FirstIdx(diffs, isSel) # 0 /\ diffs[FirstIdx(diffs, isSel)].status = "pending"
  /\ actionLoading = ""
  /\ currentRunId # ""
  /\ dvWrites < MaxWrites
  /\ actionLoading' = action \o "-" \o selectedDiff
  /\ dvWrites' = dvWrites + 1
  /\ dvWrite' = [kind |-> "diff", action |-> action, diffId |-> selectedDiff,
                 runId |-> currentRunId, sel |-> selectedDiff, w |-> dvWrites + 1,
                 state |-> "sent", exec |-> NoExec]
  /\ UNCHANGED <<dvPhase, diffs, selectedDiff, dvLoading, currentRunId, runStatus,
                 dvFetches, dvStarted, settle, patched, mutationErrors,
                 pushVars, tlVars, otherVars>>

\* Approve All / Reject All: handleAction up to its await
DvRunAction(action) ==
  /\ dvPhase = "mounted"
  /\ ~dvLoading
  /\ Len(diffs) > 1
  /\ Cardinality({i \in 1..Len(diffs) : diffs[i].status = "pending"}) > 1
  /\ actionLoading = ""
  /\ currentRunId # ""
  /\ dvWrites < MaxWrites
  /\ actionLoading' = action
  /\ dvWrites' = dvWrites + 1
  /\ dvWrite' = [kind |-> "run", action |-> action, diffId |-> "",
                 runId |-> currentRunId, sel |-> selectedDiff, w |-> dvWrites + 1,
                 state |-> "sent", exec |-> NoExec]
  /\ UNCHANGED <<dvPhase, diffs, selectedDiff, dvLoading, currentRunId, runStatus,
                 dvFetches, dvStarted, settle, patched, mutationErrors,
                 pushVars, tlVars, otherVars>>

\* the backend answers the request in flight
DvServer(ok, exec) ==
  /\ dvWrite.state = "sent"
  /\ exec \in (IF ok /\ dvWrite.kind = "diff" THEN ServerExec(dvWrite.action) ELSE {NoExec})
  /\ dvWrite' = [dvWrite EXCEPT !.state = IF ok THEN "ok" ELSE "failed", !.exec = exec]
  /\ UNCHANGED <<dvPhase, diffs, selectedDiff, dvLoading, actionLoading, currentRunId,
                 runStatus, dvFetches, dvStarted, dvWrites, settle, patched, mutationErrors,
                 pushVars, tlVars, otherVars>>

\* the request resolved: the rest of the try block and the finally block
DvWriteOk ==
  /\ dvWrite.state = "ok"
  /\ dvWrite' = NoWrite
  /\ settle' = settle \cup {[w |-> dvWrite.w, sel |-> dvWrite.sel]}
  /\ IF dvPhase = "mounted"
     THEN /\ actionLoading' = ""
          /\ patched' = PatchedBy(patched, diffs, dvWrite)
          /\ IF dvWrite.kind = "diff"
             THEN /\ diffs' = PatchDiff(diffs, dvWrite.diffId, dvWrite.action, dvWrite.exec)
                  /\ UNCHANGED <<runStatus, selectedDiff, currentRunId, dvFetches, dvStarted>>
             ELSE /\ runStatus' = IF dvWrite.action = "approve" THEN "completed" ELSE "failed"
                  /\ diffs' = PatchAll(diffs, dvWrite.action)
                  /\ selectedDiff' = ""
                  /\ currentRunId' = ""
                  /\ IF selectedDiff # ""
                     THEN DvStartFetch("", dvFetches)
                     ELSE UNCHANGED <<dvFetches, dvStarted>>
     ELSE UNCHANGED <<actionLoading, diffs, runStatus, selectedDiff, currentRunId,
                      dvFetches, dvStarted, patched>>
  /\ UNCHANGED <<dvPhase, dvLoading, dvWrites, mutationErrors, pushVars, tlVars,
                 otherVars>>

\* mutation of DvWriteFail: no finally block, the marker stays
DvWriteFail_KeepsMarker ==
  /\ dvWrite.state = "failed"
  /\ dvWrite' = NoWrite
  /\ mutationErrors' = mutationErrors + 1
  /\ UNCHANGED <<dvPhase, diffs, selectedDiff, dvLoading, actionLoading, currentRunId,
                 runStatus, dvFetches, dvStarted, dvWrites, settle, patched, pushVars, tlVars,
                 otherVars>>

\* the request rejected: the catch block (toast.error) and the finally block
DvWriteFail ==
  /\ dvWrite.state = "failed"
  /\ dvWrite' = NoWrite
  /\ actionLoading' = IF dvPhase = "mounted" THEN "" ELSE actionLoading
  /\ mutationErrors' = mutationErrors + 1
  /\ UNCHANGED <<dvPhase, diffs, selectedDiff, dvLoading, currentRunId, runStatus,
                 dvFetches, dvStarted, dvWrites, settle, patched,
                 pushVars, tlVars, otherVars>>

\* the 500 ms timer fires: fetchDiffs() of the render the handler belongs to
DvSettleFire(t) ==
  /\ t \in settle
  /\ settle' = settle \ {t}
  /\ DvStartFetch(t.sel, dvFetches)
  /\ UNCHANGED <<dvPhase, diffs, selectedDiff, dvLoading, actionLoading, currentRunId,
                 runStatus, dvWrite, dvWrites, patched, mutationErrors,
                 pushVars, tlVars, otherVars>>

\* unmount: clearInterval
DvDispose ==
  /\ dvPhase = "mounted"
  /\ dvPhase' = "disposed"
  /\ UNCHANGED <<diffs, selectedDiff, dvLoading, actionLoading, currentRunId, runStatus,
                 dvFetches, dvStarted, dvWrite, dvWrites, settle, patched, mutationErrors,
                 pushVars, tlVars, otherVars>>

(***************************************************************************)
(* SlackMessages                                                           *)
(***************************************************************************)
\* fetchMessages() up to its await; proj is the projectId its closure captured
SlStartFetch(proj, fetches) ==
  /\ slStarted < MaxSlFetches
  /\ slStarted' = slStarted + 1
  /\ slFetches' = fetches \cup {[n |-> slStarted + 1, proj |-> proj]}
  /\ slLoading' = TRUE

\* the polling effect runs for the first time
SlMount ==
  /\ slPhase = "init"
  /\ slPhase' = "mounted"
  /\ SlStartFetch(slProjectId, slFetches)
  /\ UNCHANGED <<slProjectId, messages, slError, slSwitches, pushVars, tlVars, dvVars, entVars, serverRuns>>

\* setInterval(fetchMessages, 30000) elapses
SlTick ==
  /\ slPhase = "mounted"
  /\ SlStartFetch(slProjectId, slFetches)
  /\ UNCHANGED <<slPhase, slProjectId, messages, slError, slSwitches, pushVars, tlVars,
                 dvVars, entVars, serverRuns>>

\* the prop projectId changes: clearInterval of the old effect, then the
\* effect runs again with the fetchMessages of the new render
SlSwitchProject(p) ==
  /\ slPhase = "mounted"
  /\ p # slProjectId
  /\ slSwitches < MaxSlSwitches
  /\ slSwitches' = slSwitches + 1
  /\ slProjectId' = p
  /\ SlStartFetch(p, slFetches)
  /\ UNCHANGED <<slPhase, messages, slError, pushVars, tlVars, dvVars, entVars, serverRuns>>

\* getSlackMessages of request f resolves: the rest of the try block and the
\* finally block
SlRespondOk(f) ==
  /\ f \in slFetches
  /\ slFetches' = slFetches \ {f}
  /\ IF slPhase = "mounted"
     THEN /\ messages' = [proj |-> f.proj, n |-> f.n]
          /\ slError' = ""
          /\ slLoading' = FALSE
     ELSE UNCHANGED <<messages, slError, slLoading>>
  /\ UNCHANGED <<slPhase, slProjectId, slStarted, slSwitches, pushVars, tlVars, dvVars, entVars, serverRuns>>

\* getSlackMessages of request f rejects: the catch block and the finally block
SlRespondFail(f) ==
  /\ f \in slFetches
  /\ slFetches' = slFetches \ {f}
  /\ IF slPhase = "mounted"
     THEN /\ slError' = "Failed to fetch Slack messages"
          /\ slLoading' = FALSE
     ELSE UNCHANGED <<slError, slLoading>>
  /\ UNCHANGED <<slPhase, slProjectId, messages, slStarted, slSwitches, pushVars, tlVars,
                 dvVars, entVars, serverRuns>>

\* unmount: clearInterval
SlDispose ==
  /\ slPhase = "mounted"
  /\ slPhase' = "disposed"
  /\ UNCHANGED <<slProjectId, messages, slLoading, slError, slFetches, slStarted, slSwitches,
                 pushVars, tlVars, dvVars, entVars, serverRuns>>

(***************************************************************************)
(* useConnections and useProjects                                          *)
(***************************************************************************)
\* the lists getConnections / getProjects may return
ConnSnapshots == {<<>>, <<Entity(ServerId(0), "connected")>>}
ProjSnapshots == {<<>>, <<Entity(ServerId(0), "active")>>}

\* the status the backend gives a new entity
ConnStatuses == {"connected", "disconnected"}
ProjStatuses == {"active"}

\* mutation of FallbackConn: the placeholder claims to be connected
FallbackConn_Connected(n) == Entity(LocalId(n), "connected")

\* useConnections.add catch block: the locally made connection
FallbackConn(n) == Entity(LocalId(n), "disconnected")

\* useProjects.create catch block: the locally made project
FallbackProj(n) == Entity(LocalId(n), "active")

\* prev.filter(e => e.id !== id)
Without(list, id) == SelectSeq(list, LAMBDA e : e.id # id)

\* the hooks' first render: fetchConnections() and fetchProjects()
EntMount ==
  /\ entPhase = "init"
  /\ entPhase' = "mounted"
  /\ entFetches' = {"connections", "projects"}
  /\ UNCHANGED <<connections, projects, activeProject, entOps, entStarted, entReturned, entRemoved,
                 pushVars, tlVars, dvVars, slVars, serverRuns>>

\* the Refresh All button of ConnectionVault: refresh() is fetchConnections(),
\* up to its await; the request is told apart from the one of the first render
ConnRefresh ==
  /\ entPhase = "mounted"
  /\ "refresh" \notin entFetches
  /\ entFetches' = entFetches \cup {"refresh"}
  /\ UNCHANGED <<entPhase, connections, projects, activeProject, entOps, entStarted,
                 entReturned, entRemoved, pushVars, tlVars, dvVars, slVars, serverRuns>>

\* getConnections / getProjects resolves with data; the fetchProjects closure
\* of the first render holds activeProject = null
EntFetchOk(kind, data) ==
  /\ kind \in entFetches
  /\ entFetches' = entFetches \ {kind}
  /\ IF entPhase # "mounted"
     THEN UNCHANGED <<connections, projects, activeProject>>
     ELSE IF kind \in {"connections", "refresh"}
     THEN /\ data \in ConnSnapshots
          /\ connections' = data
          /\ UNCHANGED <<projects, activeProject>>
     ELSE /\ data \in ProjSnapshots
          /\ projects' = data
          /\ activeProject' = IF Len(data) > 0 THEN data[1].id ELSE activeProject
          /\ UNCHANGED connections
  /\ UNCHANGED <<entPhase, entOps, entStarted, entReturned, entRemoved, pushVars, tlVars,
                 dvVars, slVars, serverRuns>>

\* getConnections / getProjects rejects: the catch block
EntFetchFail(kind) ==
  /\ kind \in entFetches
  /\ entFetches' = entFetches \ {kind}
  /\ IF entPhase # "mounted"
     THEN UNCHANGED <<connections, projects>>
     ELSE IF kind \in {"connections", "refresh"}
     THEN connections' = <<>> /\ UNCHANGED projects
     ELSE projects' = <<>> /\ UNCHANGED connections
  /\ UNCHANGED <<entPhase, activeProject, entOps, entStarted, entReturned, entRemoved, pushVars, tlVars,
                 dvVars, slVars, serverRuns>>

\* add / create / remove up to its await: one more request in flight; id is
\* the entity to delete, active the activeProject the closure captured
EntInvoke(kind, id, active) ==
  /\ entPhase = "mounted"
  /\ entStarted < MaxOps
  /\ entStarted' = entStarted + 1
  /\ entOps' = entOps \cup {[n |-> entStarted + 1, kind |-> kind, id |-> id, active |-> active,
                             state |-> "sent", reply |-> NoEntity]}
  /\ UNCHANGED <<entPhase, connections, projects, activeProject, entFetches, entReturned, entRemoved,
                 pushVars, tlVars, dvVars, slVars, serverRuns>>

\* useConnections.add
ConnAdd == EntInvoke("addConn", NoId, NoId)

\* useConnections.remove(connId)
ConnRemove(id) ==
  /\ \E i \in 1..Len(connections) : connections[i].id = id
  /\ EntInvoke("removeConn", id, NoId)

\* useProjects.create
ProjCreate == EntInvoke("createProj", NoId, NoId)

\* useProjects.remove(id)
ProjRemove(id) ==
  /\ \E i \in 1..Len(projects) : projects[i].id = id
  /\ EntInvoke("removeProj", id, activeProject)

\* the backend answers request op: it fails, or succeeds and (for a create)
\* returns the new entity with the given status
EntServer(op, ok, status) ==
  /\ op \in entOps
  /\ op.state = "sent"
  /\ status \in (IF ~ok \/ op.kind \in {"removeConn", "removeProj"} THEN {""}
                 ELSE IF op.kind = "addConn" THEN ConnStatuses ELSE ProjStatuses)
  /\ entOps' = (entOps \ {op}) \cup
                 {[op EXCEPT !.state = IF ok THEN "ok" ELSE "failed",
                             !.reply = IF status = "" THEN NoEntity
                                       ELSE Entity(ServerId(op.n), status)]}
  /\ UNCHANGED <<entPhase, connections, projects, activeProject, entFetches, entStarted,
                 entReturned, entRemoved, pushVars, tlVars, dvVars, slVars, serverRuns>>

\* useConnections.add after its await: the try block or the catch block
ConnAddDone(op) ==
  /\ op \in entOps
  /\ op.kind = "addConn"
  /\ op.state \in {"ok", "failed"}
  /\ LET conn == IF op.state = "ok" THEN op.reply ELSE FallbackConn(op.n)
     IN  /\ connections' = IF entPhase = "mounted" THEN Append(connections, conn)
                           ELSE connections
         /\ entReturned' = entReturned \cup {[n |-> op.n, entity |-> conn]}
  /\ entOps' = entOps \ {op}
  /\ UNCHANGED <<entRemoved, entPhase, projects, activeProject, entFetches, entStarted,
                 pushVars, tlVars, dvVars, slVars, serverRuns>>

\* mutation of ConnRemoveDone: the connection is dropped only when the
\* request succeeded
ConnRemoveDone_OnlyOnSuccess(op) ==
  /\ op \in entOps
  /\ op.kind = "removeConn"
  /\ op.state \in {"ok", "failed"}
  /\ connections' = IF entPhase = "mounted" /\ op.state = "ok"
                  THEN Without(connections, op.id) ELSE connections
  /\ entRemoved' = entRemoved \cup {[n |-> op.n, id |-> op.id, ok |-> (op.state = "ok")]}
  /\ entOps' = entOps \ {op}
  /\ UNCHANGED <<entPhase, projects, activeProject, entFetches, entStarted, entReturned,
                 pushVars, tlVars, dvVars, slVars, serverRuns>>

\* useConnections.remove after its await: the connection is dropped locally
\* whether the request succeeded or not
ConnRemoveDone(op) ==
  /\ op \in entOps
  /\ op.kind = "removeConn"
  /\ op.state \in {"ok", "failed"}
  /\ connections' = IF entPhase = "mounted" THEN Without(connections, op.id) ELSE connections
  /\ entRemoved' = entRemoved \cup {[n |-> op.n, id |-> op.id, ok |-> (op.state = "ok")]}
  /\ entOps' = entOps \ {op}
  /\ UNCHANGED <<entPhase, projects, activeProject, entFetches, entStarted, entReturned,
                 pushVars, tlVars, dvVars, slVars, serverRuns>>

\* useProjects.create after its await: the try block or the catch block
ProjCreateDone(op) ==
  /\ op \in entOps
  /\ op.kind = "createProj"
  /\ op.state \in {"ok", "failed"}
  /\ LET proj == IF op.state = "ok" THEN op.reply ELSE FallbackProj(op.n)
     IN  /\ projects' = IF entPhase = "mounted" THEN <<proj>> \o projects ELSE projects
         /\ entReturned' = entReturned \cup {[n |-> op.n, entity |-> proj]}
  /\ entOps' = entOps \ {op}
  /\ UNCHANGED <<entRemoved, entPhase, connections, activeProject, entFetches, entStarted,
                 pushVars, tlVars, dvVars, slVars, serverRuns>>

\* useProjects.remove after deleteProject resolved: the rest of the try block
ProjRemoveOk(op) ==
  /\ op \in entOps
  /\ op.kind = "removeProj"
  /\ op.state = "ok"
  /\ entOps' = entOps \ {op}
  /\ IF entPhase = "mounted"
     THEN LET remaining == Without(projects, op.id)
          IN  /\ projects' = remaining
              /\ activeProject' = IF op.active # op.id THEN activeProject
                                  ELSE IF Len(remaining) > 0 THEN remaining[1].id ELSE NoId
     ELSE UNCHANGED <<projects, activeProject>>
  /\ UNCHANGED <<entPhase, connections, entFetches, entStarted, entReturned, entRemoved,
                 pushVars, tlVars, dvVars, slVars, serverRuns>>

\* useProjects.remove after deleteProject rejected: console.error
ProjRemoveFail(op) ==
  /\ op \in entOps
  /\ op.kind = "removeProj"
  /\ op.state = "failed"
  /\ entOps' = entOps \ {op}
  /\ UNCHANGED <<entPhase, connections, projects, activeProject, entFetches, entStarted,
                 entReturned, entRemoved, pushVars, tlVars, dvVars, slVars, serverRuns>>

\* the view that uses the hooks unmounts
EntDispose ==
  /\ entPhase = "mounted"
  /\ entPhase' = "disposed"
  /\ UNCHANGED <<connections, projects, activeProject, entFetches, entOps, entStarted,
                 entReturned, entRemoved, pushVars, tlVars, dvVars, slVars, serverRuns>>

(***************************************************************************)
(* Specifications.                                                         *)
(***************************************************************************)
\* the push channel with its whole life cycle
Next ==
  \/ Mount
  \/ \E p \in Projects : SwitchProject(p)
  \/ Dispose
  \/ \E s \in SockIds : SocketOpen(s)
  \/ \E s \in SockIds : SocketClose(s)
  \/ \E t \in SockIds : TimerFire(t)

Spec == Init /\ [][Next]_vars

\* close() of a socket completes: its close event is delivered
CloseCompletes == \E s \in SockIds : sockets[s].state = "closing" /\ SocketClose(s)

\* the push channel for as long as it is not disposed
NextLive ==
  \/ Mount
  \/ \E p \in Projects : SwitchProject(p)
  \/ \E s \in SockIds : SocketOpen(s)
  \/ \E s \in SockIds : SocketClose(s)
  \/ \E t \in SockIds : TimerFire(t)

\* ... when pending timers fire and pending closes complete
SpecLive ==
  /\ Init
  /\ [][NextLive]_vars
  /\ WF_vars(\E t \in SockIds : TimerFire(t))
  /\ WF_vars(CloseCompletes)

\* the push channel with pulses arriving while the workspace changes
NextWorkspace ==
  \/ Mount
  \/ \E p \in Projects : SwitchProject(p)
  \/ \E s \in SockIds : SocketOpen(s)
  \/ \E s \in SockIds : SocketClose(s)
  \/ \E t \in SockIds : TimerFire(t)
  \/ OnMessagePulse(MaxWsPulses, TRUE)

SpecWorkspace == Init /\ [][NextWorkspace]_vars

\* the push channel with the messages its owner sends
NextSend ==
  \/ Mount
  \/ Dispose
  \/ \E s \in SockIds : SocketOpen(s)
  \/ \E s \in SockIds : SocketClose(s)
  \/ \E t \in SockIds : TimerFire(t)
  \/ SendMessage("ping")
  \/ TriggerRun

SpecSend == Init /\ [][NextSend]_vars

\* the push channel with every kind of inbound frame
NextFrames ==
  \/ Mount
  \/ \E s \in SockIds : SocketOpen(s)
  \/ \E frame \in Frames : OnMessage(frame)
  \/ PulseEffect

SpecFrames == Init /\ [][NextFrames]_vars

\* the pulse buffer up to and beyond its capacity
NextBuffer ==
  \/ Mount
  \/ \E s \in SockIds : SocketOpen(s)
  \/ OnMessagePulse(MaxPulses, TRUE)
  \/ PulseEffect

SpecBuffer == Init /\ [][NextBuffer]_vars

\* the pulse buffer with clearPulses, and the feed that shows it
NextFeed ==
  \/ Mount
  \/ \E s \in SockIds : SocketOpen(s)
  \/ OnMessagePulse(MaxFeedPulses, TRUE)
  \/ ClearPulses
  \/ PulseEffect

SpecFeed == Init /\ [][NextFeed]_vars

\* the notification list up to and beyond its capacity
NextNotif ==
  \/ Mount
  \/ \E s \in SockIds : SocketOpen(s)
  \/ OnMessagePulse(MaxNotifPulses, FALSE)
  \/ PulseEffect
  \/ TriggerStart
  \/ \E p \in Projects : TriggerOk(p)
  \/ \E p \in Projects : TriggerFail(p)
  \/ MarkAllRead

SpecNotif == Init /\ [][NextNotif]_vars

\* the run poller and the run selection of AgentTimeline
NextTimeline ==
  \/ TlMount
  \/ TlTick
  \/ \E f \in tlFetches, data \in RunSnapshots : TlRespondOk(f, data)
  \/ \E f \in tlFetches : TlRespondFail(f)
  \/ \E r \in RunIds : TlClick(r)
  \/ TlDispose

SpecTimeline == Init /\ [][NextTimeline]_vars

\* the diff poller and the approve / reject handlers of DiffViewer
NextDiff ==
  \/ DvMount
  \/ DvTick
  \/ \E f \in dvFetches, data \in DvSnapshots : DvRespondOk(f, data)
  \/ \E f \in dvFetches : DvRespondFail(f)
  \/ \E d \in {"D1", "D2", "D3"} : DvSelect(d)
  \/ \E a \in {"approve", "reject"} : DvDiffAction(a)
  \/ \E a \in {"approve", "reject"} : DvRunAction(a)
  \/ \E ok \in BOOLEAN, exec \in {ExecCreate, NoExec} : DvServer(ok, exec)
  \/ DvWriteOk
  \/ DvWriteFail
  \/ \E t \in settle : DvSettleFire(t)
  \/ DvDispose

SpecDiff == Init /\ [][NextDiff]_vars

\* fetchDiffs of DiffViewer over every run list
NextReview ==
  \/ DvMount
  \/ DvTick
  \/ \E f \in dvFetches : DvRespondOk(f, serverRuns)

SpecReview == InitReview /\ [][NextReview]_vars

\* the message poller of SlackMessages across project changes
NextSlack ==
  \/ SlMount
  \/ SlTick
  \/ \E p \in Projects : SlSwitchProject(p)
  \/ \E f \in slFetches : SlRespondOk(f)
  \/ \E f \in slFetches : SlRespondFail(f)
  \/ SlDispose

SpecSlack == Init /\ [][NextSlack]_vars

\* the connection list and the project list with their create / delete
\* operations
EntityIds == {ServerId(n) : n \in 0..MaxOps} \cup {LocalId(n) : n \in 1..MaxOps}

NextEntities ==
  \/ EntMount
  \/ ConnRefresh
  \/ \E data \in ConnSnapshots, kind \in {"connections", "refresh"} : EntFetchOk(kind, data)
  \/ \E data \in ProjSnapshots : EntFetchOk("projects", data)
  \/ \E kind \in {"connections", "projects", "refresh"} : EntFetchFail(kind)
  \/ ConnAdd
  \/ \E id \in EntityIds : ConnRemove(id)
  \/ ProjCreate
  \/ \E id \in EntityIds : ProjRemove(id)
  \/ \E op \in entOps, ok \in BOOLEAN, status \in ConnStatuses \cup ProjStatuses \cup {""} :
       EntServer(op, ok, status)
  \/ \E op \in entOps : ConnAddDone(op)
  \/ \E op \in entOps : ConnRemoveDone(op)
  \/ \E op \in entOps : ProjCreateDone(op)
  \/ \E op \in entOps : ProjRemoveOk(op)
  \/ \E op \in entOps : ProjRemoveFail(op)
  \/ EntDispose

SpecEntities == Init /\ [][NextEntities]_vars

TypeOK ==
  /\ phase \in {"init", "mounted", "disposed"}
  /\ wsRef \in SockIds \cup {NoHandle}
  /\ reconnectAttempts \in 0..MaxAttempts
  /\ Len(delayLog) <= MaxAttempts

(***************************************************************************)
(* Properties of the pulse buffer, the reconnect schedule and the          *)
(* notification list.                                                      *)
(***************************************************************************)
\* C1: the pulse buffer never holds more than 100 pulses; it holds exactly
\* the most recent arrivals, newest first, so that the 101st arrival drops
\* the earliest pulse and keeps the new one (no clearPulses in between).
C1_BufferKeepsNewest ==
  /\ Len(pulses) <= 100
  /\ Len(pulses) = Min(arrived, 100)
  /\ \A i \in 1..Len(pulses) : pulses[i].id = arrived - i + 1

C1_Witness ==
  /\ arrived = 101
  /\ Len(pulses) = 100
  /\ pulses[1].id = 101
  /\ pulses[100].id = 2

\* the delay the k-th consecutive close or failure is to be given
ExpectedDelay(k) == IF k <= 5 THEN 1000 * 2^(k - 1) ELSE 30000

\* C2: the delays handed to setTimeout since the last successful open are
\* 1000, 2000, 4000, 8000, 16000, 30000, 30000, ...: the k-th close or
\* constructor failure since that open waits min(1000 * 2^(k-1), 30000) ms,
\* and the first one after an open waits 1000 ms again.
C2_BackoffSchedule ==
  /\ Len(delayLog) = reconnectAttempts
  /\ \A k \in 1..Len(delayLog) : delayLog[k] = ExpectedDelay(k)
  /\ \A t \in ArmedTimers : timers[t].delay \in {ExpectedDelay(k) : k \in 1..MaxAttempts}

C2_Witness ==
  /\ Len(delayLog) = 7
  /\ delayLog[5] = 16000
  /\ delayLog[6] = 30000
  /\ delayLog[7] = 30000

\* a step in which the [pulses] effect runs over a non-empty buffer
PulseEffectRuns == effectPending /\ ~effectPending' /\ Len(pulses) > 0

\* C8 as stated: a notification is added for a pulse whose status is
\* completed or error, and none for a pulse of any other status.
C8_OnlyCompletedOrError ==
  [][PulseEffectRuns =>
       IF pulses[1].status \in {"completed", "error"}
       THEN Len(notifications') = Min(Len(notifications) + 1, 20)
       ELSE notifications' = notifications]_vars

\* C8 amended: every run of the pulse effect over a non-empty buffer adds
\* exactly one unread notification, titled agent + ': ' + action with the
\* target as message, for the newest pulse whatever its status; the older
\* notifications follow it unchanged and no buffer entry is dropped.
C8_OneNotificationPerRender ==
  [][PulseEffectRuns =>
       /\ Len(notifications') = Min(Len(notifications) + 1, 20)
       /\ notifications'[1].title = pulses[1].agent \o ": " \o pulses[1].action
       /\ notifications'[1].message = pulses[1].target
       /\ notifications'[1].read = FALSE
       /\ \A i \in 2..Len(notifications') : notifications'[i] = notifications[i - 1]
       /\ pulses' = pulses]_vars

C8_Witness ==
  /\ ~effectPending
  /\ Len(pulses) = 2
  /\ pulses[1].status = "running"
  /\ Len(notifications) = 2
  /\ notifications[1].title = "Scout: ingesting"
  /\ notifications[2].title = "Scribe: drafted ticket"
  /\ notifications[2].message = "PROJ-12"

\* C9: the notification list never holds more than 20 entries.
C9_NotificationsBounded == Len(notifications) <= 20

\* C10: once the channel is disposed no reconnect timer is pending and no
\* socket is being connected.
C10_NoReconnectAfterDispose ==
  phase = "disposed" =>
    /\ ArmedTimers = {}
    /\ \A s \in SockIds : sockets[s].state # "connecting"

(***************************************************************************)
(* Properties of the run poller and the run selection.                     *)
(***************************************************************************)
\* C3: a poller never has two fetches in flight at the same time.
C3_NoOverlappingFetch == Cardinality(tlFetches) <= 1

\* a step in which the response of a fetch is applied to the mounted view
TlApplied == tlPhase = "mounted" /\ \E f \in tlFetches : f \notin tlFetches'

\* the first run of the new snapshot differs from the first run of the
\* previous one and is running
NewRunningFirst(old, new) ==
  /\ Len(new) > 0
  /\ new[1].status = "running"
  /\ Len(old) > 0 => new[1].id # old[1].id

\* C5: when an applied snapshot's first run differs from the first run of the
\* previous snapshot and is running, that run becomes the selected run.
C5_AutoFollow ==
  [][(TlApplied /\ Len(runs) > 0 /\ NewRunningFirst(runs, runs'))
       => selectedRunId' = runs'[1].id]_vars

\* C6: a manually selected run that is still in the applied snapshot stays
\* selected, unless the snapshot's first run is a new running run.
C6_ManualSelectionKept ==
  [][(TlApplied /\ tlManual /\ selectedRunId \in IdsOf(runs')
        /\ ~NewRunningFirst(runs, runs'))
       => selectedRunId' = selectedRunId]_vars

\* a step in which the catch block of fetchRuns runs in the mounted view
TlFailed == tlPhase = "mounted" /\ \E f \in tlFetches : TlRespondFail(f)

\* C11: when a poll fetch fails, the snapshot the poller held before the
\* fetch (here the run list) is exactly what it was.
C11_FailedFetchKeepsSnapshot == [][TlFailed => runs' = runs]_vars

\* a step in which fetchRuns is called
TlFetchStarted == tlStarted' = tlStarted + 1

\* a step in which the view is mounted and the polling effect runs first
TlStarts == tlPhase = "init" /\ tlPhase' = "mounted"

ShowsNewStatus(list, wr) ==
  IF wr.kind = "diff"
  THEN \E i \in 1..Len(list) :
         list[i].id = wr.diffId /\ list[i].status = NewStatus(wr.action)
  ELSE \A i \in 1..Len(list) : list[i].status = NewStatus(wr.action)

DvInvoked == dvWrite = NoWrite /\ dvWrite' # NoWrite

\* a step in which the continuation of a successful request runs in the
\* mounted view
DvResolvedOk == dvPhase = "mounted" /\ dvWrite.state = "ok" /\ dvWrite' = NoWrite

C7_DiffActionRoundTrip ==
  [][(DvResolvedOk /\ dvWrite.kind = "diff") =>
       \A i \in 1..Len(diffs) :
         diffs[i].id = dvWrite.diffId =>
           /\ diffs'[i].id = dvWrite.diffId
           /\ IF dvWrite.action = "approve"
              THEN diffs'[i].status = "approved" /\ diffs'[i].exec = dvWrite.exec
              ELSE diffs'[i].status = "rejected" /\ diffs'[i].exec = NoExec]_vars

C7_Witness ==
  /\ dvPhase = "mounted"
  /\ dvWrite = NoWrite
  /\ settle = {[w |-> 1, sel |-> "D2"]}
  /\ Len(diffs) = 2
  /\ diffs[2] = Diff("D2", "approved", ExecCreate)
  /\ diffs[1] = Diff("D1", "pending", NoExec)

(***************************************************************************)
(* Properties of the message poller.                                       *)
(***************************************************************************)
\* C12: the response of a fetch is applied to the snapshot only while the
\* view is mounted and only if the fetch was issued for the project id the
\* poller is running for; a fetch in flight when the poller was stopped or
\* restarted for another project never reaches the snapshot.
C12_StoppedFetchDiscarded ==
  [][messages' # messages => (slPhase = "mounted" /\ messages'.proj = slProjectId)]_vars

(***************************************************************************)
(* Properties of outbound messages and inbound frames.                     *)
(***************************************************************************)
\* a step in which sendMessage or triggerRun is called
SendCalled == sendCalls' = sendCalls + 1

\* C13: a send while the socket of the channel is not open hands nothing to
\* the socket and changes no state, and no step other than a send transmits
\* anything, so a dropped message is not transmitted when the socket opens.
C13_SendDroppedWhenNotOpen ==
  [][/\ (SendCalled /\ (wsRef = NoHandle \/ sockets[wsRef].state # "open"))
          => UNCHANGED <<sent, healthUpdate, frameLog, chanVars, bufVars, notifVars, viewVars>>
     /\ ~SendCalled => sent' = sent]_vars

C13_Witness ==
  /\ sendCalls = 1
  /\ sent = <<>>
  /\ connected
  /\ wsRef # NoHandle
  /\ sockets[wsRef].state = "open"

\* a step in which a frame is delivered to ws.onmessage
FrameArrived == Len(frameLog') = Len(frameLog) + 1

\* the frame is not decodable or its type is none of the three known ones
NotHandled(frame) ==
  frame.json # "object" \/ frame.type \notin {"connected", "agent_pulse", "health_update"}

\* C14: a frame that is not decodable or of an unknown type leaves the pulse
\* buffer, the health value, the connected flag and the sockets unchanged,
\* and an agent_pulse frame, whatever preceded it, is put at the head of the
\* buffer.
C14_BadFrameIgnored ==
  [][FrameArrived =>
       LET frame == frameLog'[Len(frameLog')]
       IN  /\ NotHandled(frame) =>
                /\ pulses' = pulses
                /\ healthUpdate' = healthUpdate
                /\ connected' = connected
                /\ sockets' = sockets
                /\ wsRef' = wsRef
           /\ (frame.json = "object" /\ frame.type = "agent_pulse") =>
                /\ Len(pulses') = Min(Len(pulses) + 1, 100)
                /\ pulses'[1] = PulseOf(arrived + 1)
                /\ \A i \in 2..Len(pulses') : pulses'[i] = pulses[i - 1]]_vars

C14_Witness ==
  /\ Len(frameLog) = 3
  /\ frameLog[1].json = "garbage"
  /\ frameLog[2].type = "ping"
  /\ frameLog[3].type = "agent_pulse"
  /\ connected
  /\ Len(pulses) = 1
  /\ pulses[1].id = 1

(***************************************************************************)
(* Properties of the settle refresh and of local patches.                  *)
(***************************************************************************)
\* a step in which the continuation of a successful / failed request runs
DvSucceeded == dvWrite.state = "ok" /\ dvWrite' = NoWrite
DvFailed == dvWrite.state = "failed" /\ dvWrite' = NoWrite

\* C16: when an approve / reject request succeeds, the 500 ms timer of the
\* refresh is armed and no fetch of the run list is started at that moment;
\* the fetch is started when the timer fires; when the request fails no
\* timer is armed and no fetch is started.
C16_RefreshAfterSettleDelay ==
  [][/\ DvSucceeded =>
          /\ settle' = settle \cup {[w |-> dvWrite.w, sel |-> dvWrite.sel]}
          /\ dvStarted' = dvStarted
     /\ DvFailed => (settle' = settle /\ dvStarted' = dvStarted)
     /\ (\E t \in settle : t \notin settle') => dvStarted' = dvStarted + 1]_vars

\* C17: a diff that a handler patched locally is displayed with the patched
\* status until a snapshot reports it with that status; a snapshot that still
\* reports it as pending does not change what is displayed.
C17_PatchLayeredOverSnapshot ==
  \A p \in patched : \A i \in 1..Len(diffs) : diffs[i].id = p.id => diffs[i].status = p.status

(***************************************************************************)
(* Properties of the create / delete operations.                           *)
(***************************************************************************)
\* C18: a create operation (useConnections.add, useProjects.create) whose
\* request was answered completes by returning exactly one entity to its
\* caller: the entity of the answer when the request succeeded, otherwise an
\* entity with a locally generated id and the placeholder status
\* ('disconnected' for a connection, 'active' for a project); in the mounted
\* view that entity, and nothing else, is added to the list (a connection at
\* the end, a project in front).
C18_CreateAlwaysCompletes ==
  [][\A op \in entOps :
       (op.kind \in {"addConn", "createProj"} /\ op.state # "sent" /\ op \notin entOps') =>
         \E r \in entReturned' :
           /\ r.n = op.n
           /\ r \notin entReturned
           /\ entReturned' = entReturned \cup {r}
           /\ IF op.state = "ok"
              THEN r.entity = op.reply
              ELSE /\ r.entity.id = LocalId(op.n)
                   /\ r.entity.status = IF op.kind = "addConn" THEN "disconnected" ELSE "active"
           /\ entPhase = "mounted" =>
                IF op.kind = "addConn"
                THEN connections' = Append(connections, r.entity) /\ projects' = projects
                ELSE projects' = <<r.entity>> \o projects /\ connections' = connections]_vars

C18_Witness ==
  /\ entPhase = "mounted"
  /\ entOps = {}
  /\ entReturned = {[n |-> 1, entity |-> Entity(LocalId(1), "disconnected")],
                    [n |-> 2, entity |-> Entity(ServerId(2), "active")]}
  /\ connections = <<Entity(ServerId(0), "connected"), Entity(LocalId(1), "disconnected")>>
  /\ projects = <<Entity(ServerId(2), "active"), Entity(ServerId(0), "active")>>

\* a step in which the continuation of a failed create / delete request runs
EntFailed == \E op \in entOps : op.state = "failed" /\ op \notin entOps'

\* C19: every failed mutation request (approve / reject, create, delete)
\* raises an error notification where it is handled.
C19_FailureSurfaced ==
  [][(DvFailed \/ EntFailed) => mutationErrors' = mutationErrors + 1]_vars

(***************************************************************************)
(* Properties of a workspace switch.                                       *)
(***************************************************************************)
\* C20: in the step in which the workspace id of the channel changes, the
\* socket of the old workspace is no longer connecting or open, a socket to
\* the new workspace is being connected with the attempt counter at 0, or,
\* if the socket could not be made, the retry is armed with the first delay
\* of 1000 ms.
C20_SwitchResetsAttempts ==
  [][projectId' # projectId =>
       /\ wsRef # NoHandle => sockets'[wsRef].state \notin {"connecting", "open"}
       /\ IF wsRef' # NoHandle
          THEN /\ sockets'[wsRef'] = [proj |-> projectId', state |-> "connecting"]
               /\ reconnectAttempts' = 0
          ELSE /\ reconnectTimeoutRef' \in SockIds
               /\ timers'[reconnectTimeoutRef'] =
                    [proj |-> projectId', delay |-> 1000, state |-> "armed"]]_vars

(***************************************************************************)
(* Properties of the channel's sockets and of reconnection.                *)
(***************************************************************************)
\* the sockets that are connecting or open
UpSocks == {s \in SockIds : sockets[s].state \in {"connecting", "open"}}

\* C21: at any time the push channel has at most one socket that is
\* connecting or open.
C21_SingleSocket == Cardinality(UpSocks) <= 1

\* the mounted channel has no socket that is connecting or open
Down == phase = "mounted" /\ UpSocks = {}

\* C22: while the channel is mounted and not disposed it never rests with
\* neither a socket nor a reconnect timer, and whenever it has no connecting
\* or open socket a new socket is eventually made; the attempt counter
\* reaching the bound of the model ends the observation.
C22_ReconnectsEventually ==
  /\ [](phase = "mounted" => (LiveSocks # {} \/ ArmedTimers # {}))
  /\ (Down ~> (UpSocks # {} \/ reconnectAttempts = MaxAttempts))

C22_Witness ==
  /\ phase = "mounted"
  /\ reconnectAttempts = 2
  /\ ArmedTimers = {}
  /\ wsRef # NoHandle
  /\ sockets[wsRef].state = "connecting"

(***************************************************************************)
(* AgentTimeline: order of the applied answers.                            *)
(***************************************************************************)
\* a successful getRuns answer replaced the snapshot a successful answer
\* had made, by another list
TlReplaced == tlLast.ok /\ tlLast'.ok /\ tlLast' # tlLast /\ runs' # runs

\* C23: the snapshot is never replaced by the answer of a getRuns request
\* that was started earlier than the request whose answer made the current
\* snapshot.
C23_MonotonicReplacement == [][TlReplaced => tlLast'.n > tlLast.n]_vars

(***************************************************************************)
(* DiffViewer after its unmount.                                           *)
(***************************************************************************)
\* C24: after DiffViewer is disposed no further getRuns request is started,
\* neither by the interval nor by a pending 500 ms settle timer.
C24_NoFetchAfterDispose == [][dvPhase = "disposed" => dvStarted' = dvStarted]_vars

(***************************************************************************)
(* AgentTimeline: the loading flag.                                        *)
(***************************************************************************)
\* the catch block of fetchRuns ran in the mounted view
TlFailureApplied == tlLast' # tlLast /\ ~tlLast'.ok

\* C25 as stated: a failed getRuns does not clear loading; if loading was
\* true it is still true after the failure.
C25_FailureKeepsLoading == [][(TlFailureApplied /\ tlLoading) => tlLoading']_vars

\* C25: a failed getRuns clears loading as a successful one does; loading is
\* false after the failure, whatever it was before.
C25_FailureClearsLoading == [][TlFailureApplied => ~tlLoading']_vars

\* the first getRuns of the view, started while loading was true, failed and
\* loading is false although no request has succeeded
C25_Witness ==
  /\ tlPhase = "mounted"
  /\ tlStarted = 1
  /\ tlLast = [n |-> 1, ok |-> FALSE]
  /\ ~tlLoading

(***************************************************************************)
(* AgentTimeline: the selection after an applied snapshot.                 *)
(***************************************************************************)
\* the try block of fetchRuns ran in the mounted view: runs' is the snapshot
TlSnapshotApplied == tlLast' # tlLast /\ tlLast'.ok

\* C26: whenever a snapshot is applied while selectedRunId is empty, a
\* non-empty snapshot makes selectedRunId the id of its first run and an
\* empty snapshot leaves selectedRunId empty.
C26_SelectFirstWhenNone ==
  [][(TlSnapshotApplied /\ selectedRunId = "")
       => selectedRunId' = (IF Len(runs') > 0 THEN runs'[1].id ELSE "")]_vars

\* the first answer was applied to a view without a selection, its list
\* has two runs, and the first of them is selected
C26_Witness ==
  /\ tlPhase = "mounted"
  /\ tlLast = [n |-> 1, ok |-> TRUE]
  /\ Len(runs) = 2
  /\ selectedRunId = runs[1].id
  /\ ~tlManual
  /\ tlStarted = 2
  /\ tlFetches = {[n |-> 2, sel |-> runs[1].id]}

\* a non-empty snapshot is applied that lacks the selected run
TlSelectionGone ==
  /\ TlSnapshotApplied
  /\ Len(runs') > 0
  /\ selectedRunId # ""
  /\ selectedRunId \notin IdsOf(runs')

\* C27 as stated: when the selected run is absent from a newly applied
\* non-empty snapshot, selectedRunId becomes the id of its first run.
C27_SelectionFallsBack == [][TlSelectionGone => selectedRunId' = runs'[1].id]_vars

\* C27: when the selected run is absent from a newly applied non-empty
\* snapshot, the run shown (currentRun) is the first run of the snapshot,
\* while selectedRunId keeps the absent id if the fetch had captured a
\* selection.
C27_ShownRunFallsBack ==
  [][TlSelectionGone
       => /\ CurrentRun(runs', selectedRunId') = runs'[1]
          /\ \A f \in tlFetches :
               (f.n = tlLast'.n /\ f.sel # "") => selectedRunId' = selectedRunId]_vars

\* the snapshot in force lacks the selected run: the first run is shown and
\* selectedRunId names no run of the snapshot
C27_Witness ==
  /\ tlPhase = "mounted"
  /\ tlLast.ok
  /\ Len(runs) > 0
  /\ selectedRunId # ""
  /\ selectedRunId \notin IdsOf(runs)
  /\ CurrentRun(runs, selectedRunId) = runs[1]

(***************************************************************************)
(* DiffViewer: the run whose diffs are shown.                              *)
(***************************************************************************)
Least(S) == CHOOSE x \in S : \A y \in S : x <= y

\* the diffs the view is to show for the run list data
ReviewShown(data) ==
  LET inReview == {i \in 1..Len(data) :
                     data[i].currentStage = "human_review" /\ Len(data[i].diffs) >= 1}
      withDiffs == {i \in 1..Len(data) : Len(data[i].diffs) >= 1}
  IN  IF inReview # {} THEN data[Least(inReview)].diffs
      ELSE IF withDiffs # {} THEN data[Least(withDiffs)].diffs
      ELSE <<>>

\* C28: once a run list is applied the view shows the diffs of its first
\* run that is in human_review and has a diff; failing that, of its first
\* run that has a diff; failing that, none.  A newer run that is not in
\* human_review does not displace an older one that is.
C28_ReviewRunPreferred ==
  (dvPhase = "mounted" /\ ~dvLoading) => diffs = ReviewShown(serverRuns)

\* the applied list has a newer run in an earlier stage with a diff ahead of
\* a run in human_review with a diff, and the diffs of the latter are shown
C28_Witness ==
  /\ dvPhase = "mounted"
  /\ ~dvLoading
  /\ Len(serverRuns) >= 2
  /\ serverRuns[1].currentStage = "draft" /\ Len(serverRuns[1].diffs) = 1
  /\ serverRuns[2].currentStage = "human_review" /\ Len(serverRuns[2].diffs) = 1
  /\ diffs = serverRuns[2].diffs
  /\ currentRunId = serverRuns[2].id

(***************************************************************************)
(* The pulse buffer: order.                                                *)
(***************************************************************************)
\* C29: of any two pulses in the buffer the one that arrived later is nearer
\* the head, whatever their timestamps.
C29_ArrivalOrder ==
  \A i, j \in 1..Len(pulses) : (pulses[i].id > pulses[j].id) => i < j

\* the pulse at the head arrived last and carries an earlier timestamp than
\* the pulse behind it
C29_Witness ==
  /\ Len(pulses) >= 3
  /\ pulses[1].id = arrived
  /\ pulses[1].timestamp < pulses[2].timestamp
  /\ pulses[2].timestamp > pulses[3].timestamp

(***************************************************************************)
(* Locally made connections and projects.                                  *)
(***************************************************************************)
\* the entities of list that a catch block made
LocalIn(list) == {list[i] : i \in {j \in 1..Len(list) : list[j].id[1] = "local"}}

\* a getConnections / getProjects request of the view was answered
EntFetchAnswered == entFetches' \subseteq entFetches /\ entFetches' # entFetches

\* C30: no fetch and no manual refresh removes or replaces a locally made
\* connection or project: it is in the list after the answer as before.
C30_FallbackNeverReconciled ==
  [][EntFetchAnswered => /\ LocalIn(connections) \subseteq LocalIn(connections')
                         /\ LocalIn(projects) \subseteq LocalIn(projects')]_vars

(***************************************************************************)
(* The push channel: the connected flag, the workspace of the sockets and  *)
(* the reconnect timers.                                                   *)
(***************************************************************************)
\* the socket wsRef.current holds is open
CurrentOpen == wsRef # NoHandle /\ sockets[wsRef].state = "open"

\* C31: while the channel is mounted, connected is true exactly when the
\* socket of the active workspace, the one in wsRef, is open.
C31_ConnectedIffOpen == (phase = "mounted") => (connected <=> CurrentOpen)

\* C32: every pulse of the buffer was received on a socket of the active
\* workspace, and no socket to another workspace is connecting or open.
C32_PulsesOfActiveWorkspace ==
  (phase = "mounted") =>
     /\ \A i \in 1..Len(pulseWs) : pulseWs[i] = projectId
     /\ \A s \in UpSocks : sockets[s].proj = projectId

\* C37: at most one reconnect timer is pending, and it is the one whose
\* handle reconnectTimeoutRef holds, so that the clearTimeout of the cleanup
\* cancels every pending reconnect.
C37_SingleTrackedTimer ==
  /\ Cardinality(ArmedTimers) <= 1
  /\ \A t \in ArmedTimers : reconnectTimeoutRef = t

(***************************************************************************)
(* DiffViewer: a write request that fails.                                 *)
(***************************************************************************)
\* a step of an approve / reject request other than the continuation of its
\* success: its invocation, the answer of the backend, the catch block
DvWriteStep == dvWrite' # dvWrite /\ ~DvSucceeded

\* C33: no step of a failing approve / reject request, from its invocation
\* to its catch block, changes the diff list, the run status, the current
\* run id or the selected diff, and the catch / finally blocks leave
\* actionLoading null in the mounted view.
C33_FailedWriteChangesNothing ==
  [][/\ DvWriteStep => UNCHANGED <<diffs, runStatus, currentRunId, selectedDiff>>
     /\ (DvFailed /\ dvPhase = "mounted") => actionLoading' = ""]_vars

\* a request has failed: the diffs are all pending as before, a diff is
\* selected, the run is known and no action is marked in progress
C33_Witness ==
  /\ dvPhase = "mounted"
  /\ mutationErrors = 1
  /\ dvWrite = NoWrite
  /\ actionLoading = ""
  /\ Len(diffs) = 2
  /\ \A i \in 1..Len(diffs) : diffs[i].status = "pending"
  /\ selectedDiff # ""
  /\ currentRunId # ""

(***************************************************************************)
(* AgentTimeline: the run of the detail panel.                             *)
(***************************************************************************)
\* C34: the run shown in the detail panel is one of the runs of the
\* snapshot whenever the snapshot is not empty, whatever selectedRunId is,
\* and there is none exactly when the snapshot is empty.
C34_CurrentRunInSnapshot ==
  LET shown == CurrentRun(runs, selectedRunId)
  IN  IF Len(runs) > 0
      THEN \E i \in 1..Len(runs) : shown = runs[i]
      ELSE shown = NoRun

\* a run was selected by a click and the snapshot in force no longer has
\* it: the only run of the snapshot is shown
C34_Witness ==
  /\ tlPhase = "mounted"
  /\ tlManual
  /\ Len(runs) = 1
  /\ selectedRunId \notin IdsOf(runs)
  /\ CurrentRun(runs, selectedRunId).id = runs[1].id

(***************************************************************************)
(* useConnections.remove.                                                  *)
(***************************************************************************)
\* new is old without the entities of the given id, the others being kept
\* as they are and in their order
KeptOthers(old, new, id) ==
  LET keep == {i \in 1..Len(old) : old[i].id # id}
  IN  /\ Len(new) = Cardinality(keep)
      /\ \A k \in 1..Len(new) :
           new[k] = old[CHOOSE i \in keep : Cardinality({j \in keep : j <= i}) = k]

\* C35: when remove(connId) runs to its end in the mounted view, connId is
\* not in the connection list, whether the delete request succeeded or
\* failed, and the other connections are as before.
C35_RemoveDropsLocally ==
  [][\A r \in entRemoved' \ entRemoved :
       entPhase = "mounted" => /\ r.id \notin IdsOf(connections')
                               /\ KeptOthers(connections, connections', r.id)]_vars

\* a remove whose delete request failed has run to its end: the connection
\* is gone and another one is still in the list
C35_Witness ==
  /\ entPhase = "mounted"
  /\ entOps = {}
  /\ Len(connections) = 1
  /\ \E r \in entRemoved : ~r.ok /\ r.id \notin IdsOf(connections)

(***************************************************************************)
(* The feed of the dashboard.                                              *)
(***************************************************************************)
\* C36: once the effects of a render have run, the list the feed shows is
\* the pulse buffer, after any pulse arrivals and clearPulses calls; after
\* clearPulses the feed shows no pulse.
C36_FeedShowsBuffer == (phase = "mounted" /\ ~effectPending) => allPulses = pulses

====
